---- MODULE Spec2Model ----
(***************************************************************************)
(* Model of the ClickHouse ORM: the query builder                          *)
(* (src/lib/QueryBuilder.js), the connection (src/lib/Connection.js), the  *)
(* model registry (src/index.js), the models (lib/Model) and the schema    *)
(* generator (src/lib/DataTypes.js).                                       *)
(*                                                                         *)
(* JavaScript values are tagged records, SQL text is a TLA+ string, and    *)
(* every builder method is an operator from the builder's query state to   *)
(* the next query state that follows the method's code branch by branch.   *)
(* The actions call these operators on one builder object.  An async       *)
(* method of the connection is one action per stretch of code between two  *)
(* await points.                                                           *)
(***************************************************************************)
EXTENDS Integers, Sequences, FiniteSets, TLC

\* The query builder: its state, the calls made on it, the last outcome.
VARIABLES query, calls, returned, threw
\* The connection: its two fields, the clients created so far, the clients
\* whose close() was invoked, whether a close() completed since the last
\* client was created, and the invocations of its async methods.
VARIABLES client, isConnected, created, closeCalled, completedClose, tasks
\* The ORM: the model registry, the define() calls made so far, the last call
\* on the ORM, a model or the schema, the requests that call handed to the
\* connection, and its outcome.
VARIABLES models, defined, api, sent, result

builderVars == <<query, calls, returned, threw>>
connVars == <<client, isConnected, created, closeCalled, completedClose, tasks>>
ormVars == <<models, defined, api, sent, result>>
vars == <<builderVars, connVars, ormVars>>

(***************************************************************************)
(* Bounds.                                                                 *)
(***************************************************************************)
\* Most calls made on one builder.
MaxCalls == 4
\* Most leaf conditions (scalar, list or operator entries) of one FilterSpec.
MaxConds == 3
\* Most elements of a value list.
MaxElems == 2
\* Most invocations of the connection's async methods.
MaxTasks == 3
\* Most define() calls on one ORM.
MaxDefines == 3

(***************************************************************************)
(* JavaScript values.                                                      *)
(***************************************************************************)
Num(n) == [t |-> "number", n |-> n]
Str(s) == [t |-> "string", s |-> s]
Undefined == [t |-> "undefined"]
Null == [t |-> "null"]
\* A Date object; str is the text its toString() gives.
DateObj(s) == [t |-> "Date", str |-> s]
\* An array and its elements in index order.
Arr(a) == [t |-> "array", a |-> a]
\* A plain object; e lists its own properties in Object.entries order.
Obj(e) == [t |-> "object", e |-> e]
Prop(k, v) == [key |-> k, value |-> v]
Bool(b) == [t |-> "boolean", b |-> b]
\* The builder itself, as returned by the chainable methods.
This == [t |-> "this"]

\* typeof v
TypeOf(v) ==
  CASE v.t = "number" -> "number"
    [] v.t = "string" -> "string"
    [] v.t = "undefined" -> "undefined"
    [] v.t = "boolean" -> "boolean"
    [] OTHER -> "object"

\* The truth value of v in a condition, !!v.
Truthy(v) ==
  CASE v.t = "number" -> v.n # 0
    [] v.t = "string" -> v.s # ""
    [] v.t = "boolean" -> v.b
    [] v.t \in {"undefined", "null"} -> FALSE
    [] OTHER -> TRUE

\* String.prototype.includes
Includes(s, kw) == \E i \in 1..(Len(s) - Len(kw) + 1) : SubSeq(s, i, i + Len(kw) - 1) = kw

\* a || b
Or(a, b) == IF Truthy(a) THEN a ELSE b

\* Reading a property of null or undefined throws a TypeError.
NoProperties(v) == v.t \in {"undefined", "null"}

\* v.k for a v that has properties: the own property k of a plain object;
\* undefined otherwise, none of the keys read being inherited.
Get(v, k) ==
  IF v.t = "object" /\ \E i \in 1..Len(v.e) : v.e[i].key = k
  THEN v.e[CHOOSE i \in 1..Len(v.e) : v.e[i].key = k].value
  ELSE Undefined

\* Array.isArray(v)
IsArray(v) == v.t = "array"

RECURSIVE ToStr(_)
RECURSIVE ArrayJoin(_, _)

\* Array.prototype.join: null and undefined elements give the empty string.
ArrayJoin(a, sep) ==
  IF a = <<>> THEN ""
  ELSE LET h == IF Head(a).t \in {"null", "undefined"} THEN "" ELSE ToStr(Head(a))
       IN IF Len(a) = 1 THEN h ELSE h \o sep \o ArrayJoin(Tail(a), sep)

\* The string conversion of a template literal, `${v}`.
ToStr(v) ==
  CASE v.t = "number" -> ToString(v.n)
    [] v.t = "string" -> v.s
    [] v.t = "undefined" -> "undefined"
    [] v.t = "null" -> "null"
    [] v.t = "boolean" -> IF v.b THEN "true" ELSE "false"
    [] v.t = "Date" -> v.str
    [] v.t = "array" -> ArrayJoin(v.a, ",")
    [] OTHER -> "[object Object]"

\* Object.entries(v) for a non-null object: a Date has no own enumerable
\* property, an array has its indices.
ObjectEntries(v) ==
  CASE v.t = "object" -> v.e
    [] v.t = "array" -> [i \in 1..Len(v.a) |-> Prop(ToString(i - 1), v.a[i])]
    [] OTHER -> <<>>

\* Plain strings joined by a separator.
RECURSIVE JoinStrings(_, _)
JoinStrings(a, sep) ==
  IF a = <<>> THEN ""
  ELSE IF Len(a) = 1 THEN a[1] ELSE a[1] \o sep \o JoinStrings(Tail(a), sep)

\* The list as it would be if the elements were not quoted one by one.
QuotedList_QuoteWhole(a) == "'" \o ArrayJoin(a, ", ") \o "'"

\* value.map(v => `'${v}'`).join(', ')
RECURSIVE QuotedList(_)
QuotedList(a) ==
  IF a = <<>> THEN ""
  ELSE LET h == "'" \o ToStr(Head(a)) \o "'"
       IN IF Len(a) = 1 THEN h ELSE h \o ", " \o QuotedList(Tail(a))

(***************************************************************************)
(* QueryBuilder.                                                           *)
(***************************************************************************)
\* this.query as the constructor leaves it.
constructor ==
  [select |-> <<>>, from |-> Str(""), joins |-> <<>>, where |-> <<>>,
   groupBy |-> <<>>, having |-> <<>>, orderBy |-> <<>>,
   limit |-> Null, offset |-> Null]

select(q, fields) ==
  IF TypeOf(fields) = "string"
  THEN [q EXCEPT !.select = IF fields.s = "*" THEN <<Str("*")>> ELSE <<fields>>]
  ELSE IF IsArray(fields) THEN [q EXCEPT !.select = fields.a]
  ELSE q

from(q, table) == [q EXCEPT !.from = table]

\* join as it would be if it put the new join first (unshift for push).
join_Unshift(q, table, condition, type) ==
  [q EXCEPT !.joins = <<[type |-> IF type = Undefined THEN Str("INNER") ELSE type,
                         table |-> table, condition |-> condition]>> \o @]

\* type is Undefined when the caller leaves it out: the default is INNER.
join(q, table, condition, type) ==
  [q EXCEPT !.joins = Append(@, [type |-> IF type = Undefined THEN Str("INNER") ELSE type,
                                 table |-> table, condition |-> condition])]

leftJoin(q, table, condition) == join(q, table, condition, Str("LEFT"))

rightJoin(q, table, condition) == join(q, table, condition, Str("RIGHT"))

\* The switch as it would be if gt were rendered with the sign of gte.
handleOperator_GtAsGte(w, field, operator, value) ==
  CASE operator \in {"gt", "gte", "lt", "lte", "ne", "like"} ->
         [where |-> Append(w, field \o " "
                     \o (CASE operator = "gt" -> ">=" [] operator = "gte" -> ">="
                            [] operator = "lt" -> "<" [] operator = "lte" -> "<="
                            [] operator = "ne" -> "!=" [] OTHER -> "LIKE")
                     \o " '" \o ToStr(value) \o "'"),
          threw |-> FALSE]
    [] operator \in {"in", "notIn"} ->
         IF IsArray(value)
         THEN [where |-> Append(w, field \o (IF operator = "in" THEN " IN (" ELSE " NOT IN (")
                                   \o QuotedList(value.a) \o ")"),
               threw |-> FALSE]
         ELSE [where |-> w, threw |-> TRUE]
    [] OTHER -> [where |-> w, threw |-> FALSE]

\* The switch as it would be with a default case that compares for equality.
handleOperator_DefaultEquals(w, field, operator, value) ==
  CASE operator \in {"gt", "gte", "lt", "lte", "ne", "like"} ->
         [where |-> Append(w, field \o " "
                     \o (CASE operator = "gt" -> ">" [] operator = "gte" -> ">="
                            [] operator = "lt" -> "<" [] operator = "lte" -> "<="
                            [] operator = "ne" -> "!=" [] OTHER -> "LIKE")
                     \o " '" \o ToStr(value) \o "'"),
          threw |-> FALSE]
    [] operator \in {"in", "notIn"} ->
         IF IsArray(value)
         THEN [where |-> Append(w, field \o (IF operator = "in" THEN " IN (" ELSE " NOT IN (")
                                   \o QuotedList(value.a) \o ")"),
               threw |-> FALSE]
         ELSE [where |-> w, threw |-> TRUE]
    [] OTHER -> [where |-> Append(w, field \o " = '" \o ToStr(value) \o "'"), threw |-> FALSE]

\* One case of the operator switch: the where list after the entry, and
\* whether the entry threw (value.map on a value that is not an array).
handleOperator(w, field, operator, value) ==
  CASE operator = "gt" -> [where |-> Append(w, field \o " > '" \o ToStr(value) \o "'"), threw |-> FALSE]
    [] operator = "gte" -> [where |-> Append(w, field \o " >= '" \o ToStr(value) \o "'"), threw |-> FALSE]
    [] operator = "lt" -> [where |-> Append(w, field \o " < '" \o ToStr(value) \o "'"), threw |-> FALSE]
    [] operator = "lte" -> [where |-> Append(w, field \o " <= '" \o ToStr(value) \o "'"), threw |-> FALSE]
    [] operator = "ne" -> [where |-> Append(w, field \o " != '" \o ToStr(value) \o "'"), threw |-> FALSE]
    [] operator = "like" -> [where |-> Append(w, field \o " LIKE '" \o ToStr(value) \o "'"), threw |-> FALSE]
    [] operator = "in" ->
         IF IsArray(value)
         THEN [where |-> Append(w, field \o " IN (" \o QuotedList(value.a) \o ")"), threw |-> FALSE]
         ELSE [where |-> w, threw |-> TRUE]
    [] operator = "notIn" ->
         IF IsArray(value)
         THEN [where |-> Append(w, field \o " NOT IN (" \o QuotedList(value.a) \o ")"), threw |-> FALSE]
         ELSE [where |-> w, threw |-> TRUE]
    [] OTHER -> [where |-> w, threw |-> FALSE]

\* The loop over the entries of one operator map, left at the first throw.
RECURSIVE handleEntries(_, _, _)
handleEntries(w, field, entries) ==
  IF entries = <<>> THEN [where |-> w, threw |-> FALSE]
  ELSE LET r == handleOperator(w, field, Head(entries).key, Head(entries).value)
       IN IF r.threw THEN r ELSE handleEntries(r.where, field, Tail(entries))

handleComplexCondition(w, field, condition) ==
  handleEntries(w, field, ObjectEntries(condition))

\* The body of the loop of where() for one [field, value] entry.
whereEntry(w, field, value) ==
  IF IsArray(value)
  THEN [where |-> Append(w, field \o " IN (" \o QuotedList(value.a) \o ")"), threw |-> FALSE]
  ELSE IF TypeOf(value) = "object" /\ value # Null
  THEN handleComplexCondition(w, field, value)
  ELSE [where |-> Append(w, field \o " = '" \o ToStr(value) \o "'"), threw |-> FALSE]

\* The loop of where() over Object.entries(conditions), left at the first throw.
RECURSIVE whereEntries(_, _)
whereEntries(w, entries) ==
  IF entries = <<>> THEN [where |-> w, threw |-> FALSE]
  ELSE LET r == whereEntry(w, Head(entries).key, Head(entries).value)
       IN IF r.threw THEN r ELSE whereEntries(r.where, Tail(entries))

\* where(conditions): the query afterwards and whether the call threw.
\* Object.entries(null) throws a TypeError.
where(q, conditions) ==
  IF TypeOf(conditions) = "string"
  THEN [query |-> [q EXCEPT !.where = Append(@, conditions.s)], threw |-> FALSE]
  ELSE IF TypeOf(conditions) = "object"
  THEN IF conditions = Null
       THEN [query |-> q, threw |-> TRUE]
       ELSE LET r == whereEntries(q.where, ObjectEntries(conditions))
            IN [query |-> [q EXCEPT !.where = r.where], threw |-> r.threw]
  ELSE [query |-> q, threw |-> FALSE]

groupBy(q, fields) ==
  IF TypeOf(fields) = "string" THEN [q EXCEPT !.groupBy = <<fields>>]
  ELSE IF IsArray(fields) THEN [q EXCEPT !.groupBy = fields.a]
  ELSE q

having(q, conditions) ==
  IF TypeOf(conditions) = "string" THEN [q EXCEPT !.having = Append(@, conditions.s)]
  ELSE q

\* direction is Undefined when the caller leaves it out: the default is ASC.
orderBy(q, field, direction) ==
  IF TypeOf(field) = "string"
  THEN [q EXCEPT !.orderBy =
          Append(@, Str(field.s \o " " \o
                        (IF direction = Undefined THEN "ASC" ELSE ToStr(direction))))]
  ELSE IF IsArray(field) THEN [q EXCEPT !.orderBy = field.a]
  ELSE q

limit(q, count) == [q EXCEPT !.limit = count]

offset(q, count) == [q EXCEPT !.offset = count]

\* The text the join loop of build() adds.
RECURSIVE joinsSql(_)
joinsSql(joins) ==
  IF joins = <<>> THEN ""
  ELSE " " \o ToStr(Head(joins).type) \o " JOIN " \o ToStr(Head(joins).table)
       \o " ON " \o ToStr(Head(joins).condition) \o joinsSql(Tail(joins))

\* build as it would be if the WHERE clause were added before the joins.
build_WhereBeforeJoins(q) ==
  "SELECT " \o ArrayJoin(q.select, ", ") \o " FROM " \o ToStr(q.from)
  \o (IF Len(q.where) > 0 THEN " WHERE " \o JoinStrings(q.where, " AND ") ELSE "")
  \o joinsSql(q.joins)
  \o (IF Len(q.groupBy) > 0 THEN " GROUP BY " \o ArrayJoin(q.groupBy, ", ") ELSE "")
  \o (IF Len(q.having) > 0 THEN " HAVING " \o JoinStrings(q.having, " AND ") ELSE "")
  \o (IF Len(q.orderBy) > 0 THEN " ORDER BY " \o ArrayJoin(q.orderBy, ", ") ELSE "")
  \o (IF q.limit # Null THEN " LIMIT " \o ToStr(q.limit) ELSE "")
  \o (IF q.offset # Null THEN " OFFSET " \o ToStr(q.offset) ELSE "")

\* build as it would be if the WHERE test were `length >= 0`.
build_WhereAlways(q) ==
  "SELECT " \o ArrayJoin(q.select, ", ") \o " FROM " \o ToStr(q.from)
  \o joinsSql(q.joins)
  \o " WHERE " \o JoinStrings(q.where, " AND ")
  \o (IF Len(q.groupBy) > 0 THEN " GROUP BY " \o ArrayJoin(q.groupBy, ", ") ELSE "")
  \o (IF Len(q.having) > 0 THEN " HAVING " \o JoinStrings(q.having, " AND ") ELSE "")
  \o (IF Len(q.orderBy) > 0 THEN " ORDER BY " \o ArrayJoin(q.orderBy, ", ") ELSE "")
  \o (IF q.limit # Null THEN " LIMIT " \o ToStr(q.limit) ELSE "")
  \o (IF q.offset # Null THEN " OFFSET " \o ToStr(q.offset) ELSE "")

build(q) ==
  "SELECT " \o ArrayJoin(q.select, ", ") \o " FROM " \o ToStr(q.from)
  \o joinsSql(q.joins)
  \o (IF Len(q.where) > 0 THEN " WHERE " \o JoinStrings(q.where, " AND ") ELSE "")
  \o (IF Len(q.groupBy) > 0 THEN " GROUP BY " \o ArrayJoin(q.groupBy, ", ") ELSE "")
  \o (IF Len(q.having) > 0 THEN " HAVING " \o JoinStrings(q.having, " AND ") ELSE "")
  \o (IF Len(q.orderBy) > 0 THEN " ORDER BY " \o ArrayJoin(q.orderBy, ", ") ELSE "")
  \o (IF q.limit # Null THEN " LIMIT " \o ToStr(q.limit) ELSE "")
  \o (IF q.offset # Null THEN " OFFSET " \o ToStr(q.offset) ELSE "")

(***************************************************************************)
(* Arguments the callers pass.                                             *)
(***************************************************************************)
SelectArgs == {Undefined, Str("*"), Arr(<<Str("name"), Str("email")>>)}
FromArgs == {Str("users"), Str("users u")}
JoinTable == Str("posts p")
JoinCondition == Str("u.id = p.user_id")
WhereArgs == {Str("active = 1"), Obj(<<>>), Obj(<<Prop("age", Obj(<<Prop("gte", Num(18))>>))>>)}
GroupByArgs == {Str("name"), Arr(<<Str("name"), Str("email")>>)}
HavingArgs == {Str("COUNT(*) > 1")}
OrderByArgs == {<<Str("name"), Str("ASC")>>, <<Str("age"), Undefined>>,
                <<Arr(<<Str("email DESC")>>), Undefined>>}
LimitArgs == {Num(10)}
OffsetArgs == {Num(5)}

\* FilterSpecs: field names, scalar values, list elements and operator tags.
Fields == {"age", "status"}
Scalars == {Num(18), Str("O'Brien"), Null,
            DateObj("Thu Jan 01 1970 00:00:00 GMT+0000 (Coordinated Universal Time)")}
Elems == {Str("active"), Num(1)}
Operators == {"gt", "gte", "lt", "lte", "ne", "like", "in", "notIn", "eq", "between"}

\* The values tried under one operator tag; a string under in/notIn is the
\* value that is not a sequence.
OperatorValues(op) ==
  CASE op \in {"in", "notIn"} -> {Arr(<<Str("active"), Str("pending")>>), Str("active")}
    [] op = "like" -> {Str("John%")}
    [] op \in {"lt", "lte"} -> {Num(65)}
    [] OTHER -> {Num(18)}

Lists == UNION {[1..n -> Elems] : n \in 0..MaxElems}

\* Operator maps of exactly n entries whose keys are distinct and not in used.
RECURSIVE OperatorMaps(_, _)
OperatorMaps(n, used) ==
  IF n = 0 THEN {<<>>}
  ELSE UNION {LET rests == OperatorMaps(n - 1, used \cup {op})
              IN {<<Prop(op, v)>> \o rest : v \in OperatorValues(op), rest \in rests} :
              op \in Operators \ used}

\* The place of a field the FilterSpec does not have.
NoEntry == [t |-> "absent"]

\* Field values that hold w leaf conditions (an empty operator map counts 1);
\* none for a field that is left out.
FieldValues(w) ==
  IF w = 0 THEN {NoEntry}
  ELSE IF w = 1
  THEN Scalars \cup {Arr(l) : l \in Lists}
       \cup {Obj(m) : m \in OperatorMaps(0, {}) \cup OperatorMaps(1, {})}
  ELSE {Obj(m) : m \in OperatorMaps(w, {})}

FieldValuesOfWeight == [w \in 0..MaxConds |-> FieldValues(w)]

\* The two field names in either key order.
FieldOrders == {fs \in [1..2 -> Fields] : fs[1] # fs[2]}

\* The FilterSpec with the keys fs and the values vs, less the fields left out.
FilterSpec(fs, vs) ==
  Obj(SelectSeq([i \in 1..2 |-> Prop(fs[i], vs[i])], LAMBDA e : e.value # NoEntry))

(***************************************************************************)
(* The connection (src/lib/Connection.js).  A client is the number of the  *)
(* createClient call that made it; NoClient is null.  The external client  *)
(* library decides whether createClient, query, insert, json and close     *)
(* fail, and with which message.                                           *)
(***************************************************************************)
NoClient == 0

\* The messages of the external client's errors.
CreateClientMessage == "Invalid URL"
ClientMessage == "Syntax error"
JsonMessage == "Unexpected end of JSON input"
CloseMessage == "socket hang up"

\* The catch blocks of connect, authenticate, query and insert.
connectCatch(message) == "Failed to connect to ClickHouse: " \o message
authenticateCatch(message) == "Authentication failed: " \o message
\* query's catch block as it would be if it re-threw the error it caught.
queryCatch_Rethrow(message) == message
queryCatch(message) == "Query execution failed: " \o message
insertCatch(message) == "Insert failed: " \o message

\* What createClient does when called: a new client, or an error.
CreateClient(fails) ==
  IF fails THEN [threw |-> TRUE, client |-> NoClient, message |-> CreateClientMessage]
  ELSE [threw |-> FALSE, client |-> created + 1, message |-> ""]

\* connect() as it would be without the test of isConnected.
connect_AlwaysCreate(this, createClient) ==
  IF createClient.threw
  THEN [this |-> this, threw |-> TRUE, value |-> NoClient,
        message |-> connectCatch(createClient.message)]
  ELSE [this |-> [client |-> createClient.client, isConnected |-> TRUE],
        threw |-> FALSE, value |-> createClient.client, message |-> ""]

\* connect(): this is the connection's fields; the result has the fields
\* afterwards and the value returned or the error thrown.  The body has no
\* await, so it runs in one piece when connect() is called.
connect(this, createClient) ==
  IF this.isConnected
  THEN [this |-> this, threw |-> FALSE, value |-> this.client, message |-> ""]
  ELSE IF createClient.threw
  THEN [this |-> this, threw |-> TRUE, value |-> NoClient,
        message |-> connectCatch(createClient.message)]
  ELSE [this |-> [client |-> createClient.client, isConnected |-> TRUE],
        threw |-> FALSE, value |-> createClient.client, message |-> ""]

\* close() after its await as it would be if it left the client in place.
closeResume_KeepClient(this, fails) ==
  IF fails THEN this ELSE [client |-> this.client, isConnected |-> FALSE]

\* close() after `await this.client.close()`: the two assignments, or
\* nothing when the client's close() failed.
closeResume(this, fails) ==
  IF fails THEN this ELSE [client |-> NoClient, isConnected |-> FALSE]

\* The connection's fields as one record.
Connection == [client |-> client, isConnected |-> isConnected]

\* options.format === 'JSON' || !options.format
WantsJson(format) == format = Undefined \/ format = Str("JSON")

\* The formats a caller of query() asks for.
Formats == {Undefined, Str("CSV")}

\* An invocation of an async method: op is the method, pc the await it is
\* suspended at ("settled" when it has returned or thrown), connected the
\* outcome of its connect() call, format its options.format, dispatched the
\* number of calls it made on the client, onClosed whether it made one on a
\* client whose close() had been invoked, origin the external call that
\* failed, settled and message how its promise ended.
Task(op, pc, connected, format) ==
  [op |-> op, pc |-> pc, connected |-> connected, format |-> format,
   dispatched |-> 0, onClosed |-> FALSE,
   origin |-> IF connected.threw THEN "createClient" ELSE "",
   settled |-> "pending", message |-> ""]

Fulfilled(t) == [t EXCEPT !.pc = "settled", !.settled = "fulfilled"]
Rejected(t, origin, message) ==
  [t EXCEPT !.pc = "settled", !.settled = "rejected",
            !.origin = IF t.origin = "" THEN origin ELSE t.origin,
            !.message = message]

\* The call on the client after `await this.connect()`: the error of the
\* connect goes to the catch block, and so does the error of a call on null;
\* caught and caughtNull are the messages the catch block gives for them.
Dispatch(t, caught, caughtNull) ==
  IF t.connected.threw THEN Rejected(t, "createClient", caught)
  ELSE IF t.connected.value = NoClient THEN Rejected(t, "", caughtNull)
  ELSE [t EXCEPT !.pc = "reply", !.dispatched = @ + 1,
                 !.onClosed = t.connected.value \in closeCalled]

\* The ways the client answers a call: it resolves, it rejects, or the
\* result's json() rejects.
Replies == {"resolves", "rejects", "jsonRejects"}

(***************************************************************************)
(* The connection as the ORM's own code uses it: one call at a time, each  *)
(* awaited to its end.  reply is how the client answers and message the    *)
(* message of its error.                                                   *)
(***************************************************************************)
\* Connection.query(sql): the fields afterwards, the result or error, and
\* whether the server carried the statement out.
connectionQuery(this, createClient, reply, message) ==
  LET r == connect(this, createClient)
  IN CASE r.threw ->
            [this |-> r.this, threw |-> TRUE, message |-> queryCatch(r.message), done |-> FALSE]
       [] reply = "rejects" ->
            [this |-> r.this, threw |-> TRUE, message |-> queryCatch(message), done |-> FALSE]
       [] reply = "jsonRejects" ->
            [this |-> r.this, threw |-> TRUE, message |-> JsonMessage, done |-> TRUE]
       [] OTHER -> [this |-> r.this, threw |-> FALSE, message |-> "", done |-> TRUE]

\* Connection.insert(table, data): the same for an insert.
connectionInsert(this, createClient, reply, message) ==
  LET r == connect(this, createClient)
  IN CASE r.threw ->
            [this |-> r.this, threw |-> TRUE, message |-> insertCatch(r.message), done |-> FALSE]
       [] reply = "rejects" ->
            [this |-> r.this, threw |-> TRUE, message |-> insertCatch(message), done |-> FALSE]
       [] OTHER -> [this |-> r.this, threw |-> FALSE, message |-> "", done |-> TRUE]

\* A request handed to the connection: c tells whether the server carried it
\* out and the message of the error the connection threw, if it threw.
Request(op, text, c) == [op |-> op, text |-> text, done |-> c.done, error |-> c.message]

\* A returned value and a thrown error.
Returns(v) == [threw |-> FALSE, value |-> v]
Throws(message) == [threw |-> TRUE, message |-> message]

(***************************************************************************)
(* The models (lib/Model).                                                 *)
(***************************************************************************)
\* String.prototype.toLowerCase on the model names in use.
ToLowerCase(s) ==
  CASE s = "User" -> "user"
    [] s = "Post" -> "post"
    [] OTHER -> s

\* new Model(name, attributes, options): the object, id telling it from the
\* other models, or the error of its constructor.
NewModel(id, name, attributes, options) ==
  IF ~Truthy(Get(options, "tableName")) /\ name.t # "string"
  THEN Throws("Cannot read properties of undefined (reading 'toLowerCase')")
  ELSE Returns([t |-> "Model", id |-> id, name |-> name,
                tableName |-> Or(Get(options, "tableName"),
                                 Str(ToLowerCase(IF name.t = "string" THEN name.s ELSE ""))),
                attributes |-> attributes, options |-> options])

\* static Model.build(values): `new this()` passes no name and no options.
Model_build(values) ==
  LET instance == NewModel(0, Undefined, Undefined, Obj(<<>>))
  IN IF instance.threw THEN instance ELSE Returns([t |-> "Model", values |-> values])

\* The builder findAll fills from its options, up to execute().
\* The four optional clauses of findAll: each is added when its option is
\* truthy; r is the builder's state and whether where() threw.
findAll_where(q, conditions) ==
  IF Truthy(conditions) THEN where(q, conditions) ELSE [query |-> q, threw |-> FALSE]
findAll_orderBy(r, order) ==
  IF Truthy(order) /\ ~r.threw
  THEN [query |-> orderBy(r.query, order, Undefined), threw |-> FALSE] ELSE r
findAll_limit(r, count) ==
  IF Truthy(count) /\ ~r.threw THEN [query |-> limit(r.query, count), threw |-> FALSE] ELSE r
findAll_offset(r, count) ==
  IF Truthy(count) /\ ~r.threw THEN [query |-> offset(r.query, count), threw |-> FALSE] ELSE r

\* The builder findAll fills from its options, up to execute(), and whether
\* where() threw on the way.
findAll(m, options) ==
  findAll_offset(
    findAll_limit(
      findAll_orderBy(
        findAll_where(from(select(constructor, Or(options.attributes, Str("*"))), m.tableName),
                      options.where),
        options.orderBy),
      options.limit),
    options.offset)

\* execute() of the builder findAll filled: the statement handed to the
\* connection, the outcome of findAll, and the connection's fields.
findAll_execute(b, c) ==
  IF b.threw
  THEN [sent |-> <<>>, result |-> Throws("value.map is not a function"), this |-> Connection]
  ELSE [sent |-> <<Request("query", build(b.query), c)>>,
        result |-> IF c.threw THEN Throws(c.message) ELSE Returns(Arr(<<>>)),
        this |-> c.this]

\* create(values) once the insert has ended as inserted tells.
create(m, values, inserted) ==
  IF inserted.threw
  THEN Throws("Failed to create " \o ToStr(m.name) \o ": " \o inserted.message)
  ELSE LET instance == Model_build(values)
       IN IF instance.threw
          THEN Throws("Failed to create " \o ToStr(m.name) \o ": " \o instance.message)
          ELSE instance

(***************************************************************************)
(* The model registry (src/index.js): a Map, kept as its entries in        *)
(* insertion order.                                                        *)
(***************************************************************************)
MapHas(map, key) == \E i \in 1..Len(map) : map[i].key = key

\* Map.prototype.set as it would be if it kept the value a key has.
MapSet_KeepFirst(map, key, value) ==
  IF MapHas(map, key) THEN map ELSE Append(map, Prop(key, value))

\* Map.prototype.set: a key already there keeps its place.
MapSet(map, key, value) ==
  IF MapHas(map, key)
  THEN [i \in 1..Len(map) |-> IF map[i].key = key THEN Prop(key, value) ELSE map[i]]
  ELSE Append(map, Prop(key, value))

\* Map.prototype.get
MapGet(map, key) ==
  IF MapHas(map, key) THEN map[CHOOSE i \in 1..Len(map) : map[i].key = key].value
  ELSE Undefined

\* Array.from(map.values())
MapValues(map) == [i \in 1..Len(map) |-> map[i].value]

\* orm.model(name) and orm.getModels()
model(name) == MapGet(models, name)
getModels == Arr(MapValues(models))

(***************************************************************************)
(* The schema generator (class Schema of src/lib/DataTypes.js).            *)
(***************************************************************************)
\* The DEFAULT, CODEC and COMMENT parts of a column.
columnDefault(definition) ==
  IF Get(definition, "defaultValue") = Undefined THEN ""
  ELSE IF TypeOf(Get(definition, "defaultValue")) = "string"
  THEN " DEFAULT '" \o ToStr(Get(definition, "defaultValue")) \o "'"
  ELSE " DEFAULT " \o ToStr(Get(definition, "defaultValue"))
columnCodec(definition) ==
  IF Truthy(Get(definition, "codec"))
  THEN " CODEC(" \o ToStr(Get(definition, "codec")) \o ")" ELSE ""
columnComment(definition) ==
  IF Truthy(Get(definition, "comment"))
  THEN " COMMENT '" \o ToStr(Get(definition, "comment")) \o "'" ELSE ""

\* generateColumnDefinition(fieldName, definition): a definition that is
\* neither a string nor an object adds nothing after the field name.
generateColumnDefinition(fieldName, definition) ==
  CASE TypeOf(definition) = "string" -> Returns(Str(fieldName \o " " \o definition.s))
    [] TypeOf(definition) = "object" ->
         IF definition = Null THEN Throws("Cannot read properties of null (reading 'type')")
         ELSE IF Truthy(Get(definition, "type"))
         THEN Returns(Str(fieldName \o " " \o ToStr(Get(definition, "type"))
                          \o columnDefault(definition) \o columnCodec(definition)
                          \o columnComment(definition)))
         ELSE Throws("Data type is required for field " \o fieldName)
    [] OTHER -> Returns(Str(fieldName \o " "))

\* One turn of the loop over the attributes: the column, then the primary
\* key; acc has the columns and the primary key so far, or the error.
processAttribute(acc, column, e) ==
  IF column.threw THEN [acc EXCEPT !.threw = TRUE, !.message = column.message]
  ELSE IF NoProperties(e.value)
  THEN [acc EXCEPT !.threw = TRUE, !.message = "Cannot read properties of undefined (reading 'primaryKey')"]
  ELSE [acc EXCEPT !.columns = Append(@, column.value),
                   !.primaryKey = IF Truthy(Get(e.value, "primaryKey")) THEN Str(e.key) ELSE @]

RECURSIVE processAttributes(_, _)
processAttributes(entries, acc) ==
  IF entries = <<>> \/ acc.threw THEN acc
  ELSE processAttributes(
         Tail(entries),
         processAttribute(acc, generateColumnDefinition(Head(entries).key, Head(entries).value),
                          Head(entries)))

\* The ORDER BY line: the primary key, the model's orderBy option, or the
\* first column.
tableOrderBy(m, primaryKey) ==
  IF Truthy(primaryKey) THEN "ORDER BY " \o ToStr(primaryKey)
  ELSE IF Truthy(Get(m.options, "orderBy"))
  THEN "ORDER BY " \o ToStr(Get(m.options, "orderBy"))
  ELSE "ORDER BY " \o (IF ObjectEntries(m.attributes) = <<>> THEN "undefined"
                       ELSE ObjectEntries(m.attributes)[1].key)

\* The SETTINGS line of a model that has settings.
tableSettings(m) ==
  IF Truthy(Get(m.options, "settings"))
  THEN "\nSETTINGS "
       \o JoinStrings([i \in 1..Len(ObjectEntries(Get(m.options, "settings"))) |->
                         ObjectEntries(Get(m.options, "settings"))[i].key \o " = "
                         \o ToStr(ObjectEntries(Get(m.options, "settings"))[i].value)], ", ")
  ELSE ""

\* The statement, given the outcome p of the loop over the attributes.
createTableSql(m, options, p) ==
  IF p.threw THEN Throws(p.message)
  ELSE Returns(Str(
         "CREATE TABLE"
         \o (IF Get(options, "ifNotExists") # Bool(FALSE) THEN " IF NOT EXISTS" ELSE "")
         \o " " \o ToStr(m.tableName) \o " (\n"
         \o "  " \o ArrayJoin(p.columns, ",\n  ") \o "\n"
         \o ") ENGINE = " \o ToStr(Or(Get(m.options, "engine"), Str("MergeTree()")))
         \o "\n" \o tableOrderBy(m, p.primaryKey)
         \o tableSettings(m)))

\* generateCreateTableSQL(model, options): the statement, or the error.
generateCreateTableSQL(m, options) ==
  createTableSql(m, options,
                 processAttributes(ObjectEntries(m.attributes),
                                   [columns |-> <<>>, primaryKey |-> Null,
                                    threw |-> FALSE, message |-> ""]))

\* The outcome of a call that sent nothing, and of one that sent a statement.
SentNothing(this, outcome) == [sent |-> <<>>, result |-> outcome, this |-> this]
SentQuery(text, c, outcome) ==
  [sent |-> <<Request("query", text, c)>>, result |-> outcome, this |-> c.this]

\* createTable as it would be if either condition alone suppressed an error.
createTable_EitherSuppresses(this, sql, options, c) ==
  IF sql.threw THEN SentNothing(this, sql)
  ELSE SentQuery(sql.value.s, c,
                 IF c.threw /\ ~Includes(c.message, "already exists")
                    /\ ~Truthy(Get(options, "force"))
                 THEN Throws(c.message) ELSE Returns(Undefined))

\* createTable(model, options): sql is the generated statement or the error
\* of its generation, c the outcome of connection.query(sql).
createTable(this, sql, options, c) ==
  IF sql.threw THEN SentNothing(this, sql)
  ELSE SentQuery(sql.value.s, c,
                 IF c.threw /\ (~Includes(c.message, "already exists")
                                \/ ~Truthy(Get(options, "force")))
                 THEN Throws(c.message) ELSE Returns(Undefined))

\* addColumn(tableName, columnName, definition): columnDef is the generated
\* column or the error of its generation.
addColumn(this, tableName, columnDef, c) ==
  IF columnDef.threw THEN SentNothing(this, columnDef)
  ELSE SentQuery("ALTER TABLE " \o tableName \o " ADD COLUMN " \o columnDef.value.s, c,
                 IF c.threw THEN Throws("Failed to add column: " \o c.message)
                 ELSE Returns(Undefined))

\* What the server and the client library do with one statement of sync.
Outcome(fails, reply, message) == [fails |-> fails, reply |-> reply, message |-> message]

\* sync(options): createTable for the registered models in turn, up to the
\* first that throws; outs are the outcomes of the statements sent, fresh
\* the client a createClient call returns.
\* The requests of one createTable added to those sent before it.
RECURSIVE sync(_, _, _, _, _)
sync(ms, options, outs, fresh, acc) ==
  IF ms = <<>> \/ acc.result.threw THEN acc
  ELSE sync(Tail(ms), options, Tail(outs), fresh,
            [createTable(acc.this, generateCreateTableSQL(Head(ms), options), options,
                         connectionQuery(acc.this,
                                         [threw |-> Head(outs).fails,
                                          client |-> IF Head(outs).fails THEN NoClient ELSE fresh,
                                          message |-> IF Head(outs).fails
                                                      THEN CreateClientMessage ELSE ""],
                                         Head(outs).reply, Head(outs).message))
               EXCEPT !.sent = acc.sent \o @])

(***************************************************************************)
(* One builder object and its caller.  calls is the history of the builder *)
(* calls made so far, returned the value the last call returned and threw  *)
(* whether the last call threw.                                            *)
(***************************************************************************)
Call(m, a) == [method |-> m, args |-> a]

Init ==
  /\ query = constructor
  /\ calls = <<>>
  /\ returned = Undefined
  /\ threw = FALSE
  /\ client = NoClient
  /\ isConnected = FALSE
  /\ created = 0
  /\ closeCalled = {}
  /\ completedClose = FALSE
  /\ tasks = <<>>
  /\ models = <<>>
  /\ defined = <<>>
  /\ api = Call("", <<>>)
  /\ sent = <<>>
  /\ result = [threw |-> FALSE, value |-> Undefined]

CallSelect(fields) ==
  /\ Len(calls) < MaxCalls
  /\ query' = select(query, fields)
  /\ calls' = Append(calls, Call("select", <<fields>>))
  /\ returned' = This
  /\ threw' = FALSE
  /\ UNCHANGED <<connVars, ormVars>>

CallFrom(table) ==
  /\ Len(calls) < MaxCalls
  /\ query' = from(query, table)
  /\ calls' = Append(calls, Call("from", <<table>>))
  /\ returned' = This
  /\ threw' = FALSE
  /\ UNCHANGED <<connVars, ormVars>>

CallJoin(table, condition, type) ==
  /\ Len(calls) < MaxCalls
  /\ query' = join(query, table, condition, type)
  /\ calls' = Append(calls, Call("join", <<table, condition, type>>))
  /\ returned' = This
  /\ threw' = FALSE
  /\ UNCHANGED <<connVars, ormVars>>

CallLeftJoin(table, condition) ==
  /\ Len(calls) < MaxCalls
  /\ query' = leftJoin(query, table, condition)
  /\ calls' = Append(calls, Call("leftJoin", <<table, condition>>))
  /\ returned' = This
  /\ threw' = FALSE
  /\ UNCHANGED <<connVars, ormVars>>

CallRightJoin(table, condition) ==
  /\ Len(calls) < MaxCalls
  /\ query' = rightJoin(query, table, condition)
  /\ calls' = Append(calls, Call("rightJoin", <<table, condition>>))
  /\ returned' = This
  /\ threw' = FALSE
  /\ UNCHANGED <<connVars, ormVars>>

CallWhere(conditions) ==
  LET r == where(query, conditions)
  IN /\ Len(calls) < MaxCalls
     /\ query' = r.query
     /\ calls' = Append(calls, Call("where", <<conditions>>))
     /\ returned' = IF r.threw THEN Undefined ELSE This
     /\ threw' = r.threw
     /\ UNCHANGED <<connVars, ormVars>>

CallGroupBy(fields) ==
  /\ Len(calls) < MaxCalls
  /\ query' = groupBy(query, fields)
  /\ calls' = Append(calls, Call("groupBy", <<fields>>))
  /\ returned' = This
  /\ threw' = FALSE
  /\ UNCHANGED <<connVars, ormVars>>

CallHaving(conditions) ==
  /\ Len(calls) < MaxCalls
  /\ query' = having(query, conditions)
  /\ calls' = Append(calls, Call("having", <<conditions>>))
  /\ returned' = This
  /\ threw' = FALSE
  /\ UNCHANGED <<connVars, ormVars>>

CallOrderBy(field, direction) ==
  /\ Len(calls) < MaxCalls
  /\ query' = orderBy(query, field, direction)
  /\ calls' = Append(calls, Call("orderBy", <<field, direction>>))
  /\ returned' = This
  /\ threw' = FALSE
  /\ UNCHANGED <<connVars, ormVars>>

CallLimit(count) ==
  /\ Len(calls) < MaxCalls
  /\ query' = limit(query, count)
  /\ calls' = Append(calls, Call("limit", <<count>>))
  /\ returned' = This
  /\ threw' = FALSE
  /\ UNCHANGED <<connVars, ormVars>>

CallOffset(count) ==
  /\ Len(calls) < MaxCalls
  /\ query' = offset(query, count)
  /\ calls' = Append(calls, Call("offset", <<count>>))
  /\ returned' = This
  /\ threw' = FALSE
  /\ UNCHANGED <<connVars, ormVars>>

\* build() as it would be if rendering consumed the builder's state.
CallBuild_OneShot ==
  /\ Len(calls) < MaxCalls
  /\ calls' = Append(calls, Call("build", <<>>))
  /\ returned' = Str(build(query))
  /\ threw' = FALSE
  /\ query' = constructor
  /\ UNCHANGED <<connVars, ormVars>>

\* build() returns the SQL text and assigns nothing.
CallBuild ==
  /\ Len(calls) < MaxCalls
  /\ calls' = Append(calls, Call("build", <<>>))
  /\ returned' = Str(build(query))
  /\ threw' = FALSE
  /\ UNCHANGED <<query, connVars, ormVars>>

Next ==
  \/ \E fields \in SelectArgs : CallSelect(fields)
  \/ \E table \in FromArgs : CallFrom(table)
  \/ CallJoin(JoinTable, JoinCondition, Undefined)
  \/ CallLeftJoin(JoinTable, JoinCondition)
  \/ CallRightJoin(JoinTable, JoinCondition)
  \/ \E conditions \in WhereArgs : CallWhere(conditions)
  \/ \E fields \in GroupByArgs : CallGroupBy(fields)
  \/ \E conditions \in HavingArgs : CallHaving(conditions)
  \/ \E a \in OrderByArgs : CallOrderBy(a[1], a[2])
  \/ \E count \in LimitArgs : CallLimit(count)
  \/ \E count \in OffsetArgs : CallOffset(count)
  \/ CallBuild

Spec == Init /\ [][Next]_vars

\* One where(FilterSpec) call on a fresh builder, then build().
FirstWhere ==
  /\ calls = <<>>
  /\ \E fs \in FieldOrders, w1 \in 0..MaxConds :
       \E w2 \in 0..(IF w1 = 0 THEN 0 ELSE MaxConds - w1) :
         \E v1 \in FieldValuesOfWeight[w1], v2 \in FieldValuesOfWeight[w2] :
           CallWhere(FilterSpec(fs, <<v1, v2>>))

NextWhere ==
  \/ FirstWhere
  \/ CallBuild

SpecWhere == Init /\ [][NextWhere]_vars

(***************************************************************************)
(* One Connection object and its concurrent callers.  Each action is the   *)
(* code one invocation runs without yielding: from the call to the first   *)
(* await, or from one await to the next or to the end.                     *)
(***************************************************************************)
Pending(pc) == {i \in 1..Len(tasks) : tasks[i].pc = pc}

\* connect() called from outside.
ConnectCall(fails) ==
  LET r == connect(Connection, CreateClient(fails))
  IN /\ Len(tasks) < MaxTasks
     /\ client' = r.this.client
     /\ isConnected' = r.this.isConnected
     /\ created' = IF r.this.client # client THEN created + 1 ELSE created
     /\ completedClose' = (completedClose /\ r.this.client = client)
     /\ tasks' = Append(tasks, IF r.threw
                               THEN Rejected(Task("connect", "connect", r, Undefined),
                                             "createClient", r.message)
                               ELSE Fulfilled(Task("connect", "connect", r, Undefined)))
     /\ UNCHANGED <<closeCalled, builderVars, ormVars>>

\* authenticate() up to `await this.connect()`.
AuthenticateCall(fails) ==
  LET r == connect(Connection, CreateClient(fails))
  IN /\ Len(tasks) < MaxTasks
     /\ client' = r.this.client
     /\ isConnected' = r.this.isConnected
     /\ created' = IF r.this.client # client THEN created + 1 ELSE created
     /\ completedClose' = (completedClose /\ r.this.client = client)
     /\ tasks' = Append(tasks, Task("authenticate", "connect", r, Str("JSON")))
     /\ UNCHANGED <<closeCalled, builderVars, ormVars>>

\* authenticate() from `await this.connect()` to `await client.query(...)`.
AuthenticateDispatch(i) ==
  /\ tasks[i].op = "authenticate"
  /\ tasks' = [tasks EXCEPT ![i] = Dispatch(@, authenticateCatch(@.connected.message),
                                           authenticateCatch("Cannot read properties of null"))]
  /\ UNCHANGED <<client, isConnected, created, closeCalled, completedClose, builderVars, ormVars>>

\* authenticate() after `await client.query(...)`: `return result.json()` is
\* outside the reach of the catch block, its promise not being awaited.
AuthenticateReply(i, reply) ==
  /\ tasks[i].op = "authenticate"
  /\ tasks' = [tasks EXCEPT ![i] =
       CASE reply = "rejects" -> Rejected(@, "query", authenticateCatch(ClientMessage))
         [] reply = "jsonRejects" -> Rejected(@, "json", JsonMessage)
         [] OTHER -> Fulfilled(@)]
  /\ UNCHANGED <<client, isConnected, created, closeCalled, completedClose, builderVars, ormVars>>

\* query(sql, options) up to `await this.connect()`.
QueryCall(format, fails) ==
  LET r == connect(Connection, CreateClient(fails))
  IN /\ Len(tasks) < MaxTasks
     /\ client' = r.this.client
     /\ isConnected' = r.this.isConnected
     /\ created' = IF r.this.client # client THEN created + 1 ELSE created
     /\ completedClose' = (completedClose /\ r.this.client = client)
     /\ tasks' = Append(tasks, Task("query", "connect", r, format))
     /\ UNCHANGED <<closeCalled, builderVars, ormVars>>

\* query() from `await this.connect()` to `await client.query(...)`.
QueryDispatch(i) ==
  /\ tasks[i].op = "query"
  /\ tasks' = [tasks EXCEPT ![i] = Dispatch(@, queryCatch(@.connected.message),
                                           queryCatch("Cannot read properties of null"))]
  /\ UNCHANGED <<client, isConnected, created, closeCalled, completedClose, builderVars, ormVars>>

\* query() after `await client.query(...)`: the result, or its json().
QueryReply(i, reply) ==
  /\ tasks[i].op = "query"
  /\ reply = "jsonRejects" => WantsJson(tasks[i].format)
  /\ tasks' = [tasks EXCEPT ![i] =
       CASE reply = "rejects" -> Rejected(@, "query", queryCatch(ClientMessage))
         [] reply = "jsonRejects" -> Rejected(@, "json", JsonMessage)
         [] OTHER -> Fulfilled(@)]
  /\ UNCHANGED <<client, isConnected, created, closeCalled, completedClose, builderVars, ormVars>>

\* insert(table, data, options) up to `await this.connect()`.
InsertCall(fails) ==
  LET r == connect(Connection, CreateClient(fails))
  IN /\ Len(tasks) < MaxTasks
     /\ client' = r.this.client
     /\ isConnected' = r.this.isConnected
     /\ created' = IF r.this.client # client THEN created + 1 ELSE created
     /\ completedClose' = (completedClose /\ r.this.client = client)
     /\ tasks' = Append(tasks, Task("insert", "connect", r, Str("JSONEachRow")))
     /\ UNCHANGED <<closeCalled, builderVars, ormVars>>

\* insert() from `await this.connect()` to `await client.insert(...)`.
InsertDispatch(i) ==
  /\ tasks[i].op = "insert"
  /\ tasks' = [tasks EXCEPT ![i] = Dispatch(@, insertCatch(@.connected.message),
                                           insertCatch("Cannot read properties of null"))]
  /\ UNCHANGED <<client, isConnected, created, closeCalled, completedClose, builderVars, ormVars>>

\* insert() after `return await client.insert(...)`.
InsertReply(i, reply) ==
  /\ tasks[i].op = "insert"
  /\ tasks' = [tasks EXCEPT ![i] =
       IF reply = "rejects" THEN Rejected(@, "insert", insertCatch(ClientMessage))
       ELSE Fulfilled(@)]
  /\ UNCHANGED <<client, isConnected, created, closeCalled, completedClose, builderVars, ormVars>>

\* close() up to `await this.client.close()`; with no client it returns.
CloseCall ==
  LET r == [this |-> Connection, threw |-> FALSE, value |-> client, message |-> ""]
  IN /\ Len(tasks) < MaxTasks
     /\ closeCalled' = IF client # NoClient THEN closeCalled \cup {client} ELSE closeCalled
     /\ tasks' = Append(tasks, IF client # NoClient
                               THEN [Task("close", "close", r, Undefined) EXCEPT !.dispatched = 1]
                               ELSE Fulfilled(Task("close", "close", r, Undefined)))
     /\ UNCHANGED <<client, isConnected, created, completedClose, builderVars, ormVars>>

\* close() after `await this.client.close()`.
CloseResume(i, fails) ==
  LET this == closeResume(Connection, fails)
  IN /\ tasks[i].op = "close"
     /\ client' = this.client
     /\ isConnected' = this.isConnected
     /\ completedClose' = (completedClose \/ ~fails)
     /\ tasks' = [tasks EXCEPT ![i] =
          IF fails THEN Rejected(@, "close", CloseMessage) ELSE Fulfilled(@)]
     /\ UNCHANGED <<created, closeCalled, builderVars, ormVars>>

NextConnection ==
  \/ \E fails \in BOOLEAN : ConnectCall(fails)
  \/ \E fails \in BOOLEAN : AuthenticateCall(fails)
  \/ \E i \in Pending("connect") : AuthenticateDispatch(i)
  \/ \E i \in Pending("reply"), reply \in Replies : AuthenticateReply(i, reply)
  \/ \E format \in Formats, fails \in BOOLEAN : QueryCall(format, fails)
  \/ \E i \in Pending("connect") : QueryDispatch(i)
  \/ \E i \in Pending("reply"), reply \in Replies : QueryReply(i, reply)
  \/ \E fails \in BOOLEAN : InsertCall(fails)
  \/ \E i \in Pending("connect") : InsertDispatch(i)
  \/ \E i \in Pending("reply"), reply \in Replies \ {"jsonRejects"} : InsertReply(i, reply)
  \/ CloseCall
  \/ \E i \in Pending("close"), fails \in BOOLEAN : CloseResume(i, fails)

SpecConnection == Init /\ [][NextConnection]_vars

(***************************************************************************)
(* One ORM object and its caller, who makes one call at a time.  api is    *)
(* the last call, sent the requests it handed to the connection and result *)
(* its outcome.                                                            *)
(***************************************************************************)
\* The models the caller holds.
DefinedModels == {defined[i].model : i \in 1..Len(defined)}

\* orm.define(modelName, attributes, options)
Define(modelName, attributes, options) ==
  LET r == NewModel(Len(defined) + 1, modelName, attributes, options)
  IN /\ Len(defined) < MaxDefines
     /\ models' = IF r.threw THEN models ELSE MapSet(models, modelName, r.value)
     /\ defined' = IF r.threw THEN defined
                   ELSE Append(defined, [name |-> modelName, model |-> r.value])
     /\ api' = Call("define", <<modelName, attributes, options>>)
     /\ sent' = <<>>
     /\ result' = r
     /\ UNCHANGED <<builderVars, connVars>>

\* model.findAll(options): options is a record with undefined for an option
\* left out.
FindAll(m, options, fails, reply) ==
  LET o == findAll_execute(findAll(m, options),
                           connectionQuery(Connection, CreateClient(fails), reply, ClientMessage))
  IN /\ api' = Call("findAll", <<m, options>>)
     /\ sent' = o.sent
     /\ result' = o.result
     /\ client' = o.this.client
     /\ isConnected' = o.this.isConnected
     /\ created' = IF o.this.client # client THEN created + 1 ELSE created
     /\ completedClose' = (completedClose /\ o.this.client = client)
     /\ UNCHANGED <<closeCalled, tasks, models, defined, builderVars>>

\* model.create(values)
Create(m, values, fails, reply) ==
  LET c == connectionInsert(Connection, CreateClient(fails), reply, ClientMessage)
  IN /\ api' = Call("create", <<m, values>>)
     /\ sent' = <<Request("insert", ToStr(m.tableName), c)>>
     /\ result' = create(m, values, c)
     /\ client' = c.this.client
     /\ isConnected' = c.this.isConnected
     /\ created' = IF c.this.client # client THEN created + 1 ELSE created
     /\ completedClose' = (completedClose /\ c.this.client = client)
     /\ UNCHANGED <<closeCalled, tasks, models, defined, builderVars>>

\* The model of the README and the test, under its own or a given table name.
UserAttributes ==
  Obj(<<Prop("id", Obj(<<Prop("type", Str("UInt32")), Prop("primaryKey", Bool(TRUE))>>)),
        Prop("name", Str("String"))>>)
TableNameOptions == {Obj(<<>>), Obj(<<Prop("tableName", Str("people"))>>)}

\* The options of the README's findAll calls, and a zero limit and offset.
AttributesOptions == {Undefined, Arr(<<Str("name"), Str("email")>>)}
WhereOptions == {Undefined, Obj(<<Prop("age", Obj(<<Prop("gte", Num(18))>>))>>)}
OrderByOptions ==
  {Undefined, Str("name"), Arr(<<Str("name"), Str("ASC")>>),
   Arr(<<Arr(<<Str("created_at"), Str("DESC")>>), Arr(<<Str("name"), Str("ASC")>>)>>)}
LimitOptions == {Undefined, Num(0), Num(10)}
OffsetOptions == {Undefined, Num(0), Num(20)}
CreateValues == {Obj(<<Prop("name", Str("John Doe")), Prop("age", Num(30))>>)}

\* The first define of an ORM: the User model.
DefineUser ==
  /\ defined = <<>>
  /\ \E options \in TableNameOptions : Define(Str("User"), UserAttributes, options)

\* The first call on the model just defined: a findAll.
UserFindAll ==
  /\ api.method = "define"
  /\ \E m \in DefinedModels, attributes \in AttributesOptions, conditions \in WhereOptions,
        order \in OrderByOptions, count \in LimitOptions, skip \in OffsetOptions,
        fails \in BOOLEAN, reply \in Replies :
       FindAll(m, [attributes |-> attributes, where |-> conditions, orderBy |-> order,
                   limit |-> count, offset |-> skip], fails, reply)

\* The first call on the model just defined: a create.
UserCreate ==
  /\ api.method = "define"
  /\ \E m \in DefinedModels, values \in CreateValues, fails \in BOOLEAN,
        reply \in Replies \ {"jsonRejects"} :
       Create(m, values, fails, reply)

NextModel ==
  \/ DefineUser
  \/ UserFindAll
  \/ UserCreate

SpecModel == Init /\ [][NextModel]_vars

\* orm.model(name)
ModelLookup(name) ==
  /\ api' = Call("model", <<name>>)
  /\ sent' = <<>>
  /\ result' = Returns(model(name))
  /\ UNCHANGED <<models, defined, builderVars, connVars>>

\* orm.getModels()
GetModels ==
  /\ api' = Call("getModels", <<>>)
  /\ sent' = <<>>
  /\ result' = Returns(getModels)
  /\ UNCHANGED <<models, defined, builderVars, connVars>>

\* orm.sync(options), awaited to its end.
Sync(options, outs) ==
  LET o == sync(MapValues(models), options, outs, created + 1,
                SentNothing(Connection, Returns(Undefined)))
  IN /\ api' = Call("sync", <<options>>)
     /\ sent' = o.sent
     /\ result' = o.result
     /\ client' = o.this.client
     /\ isConnected' = o.this.isConnected
     /\ created' = IF o.this.client # client THEN created + 1 ELSE created
     /\ completedClose' = (completedClose /\ o.this.client = client)
     /\ UNCHANGED <<closeCalled, tasks, models, defined, builderVars>>

\* The names models are defined and looked up under; no model is ever
\* defined under the last.
ModelNames == {Str("User"), Str("Post")}
LookupNames == ModelNames \cup {Str("Comment")}

\* The attributes of the test's models, and attributes with a field that
\* has no type.
PostAttributes == Obj(<<Prop("title", Obj(<<Prop("comment", Str("Title"))>>))>>)
RegistryAttributes == {UserAttributes, PostAttributes}

\* The options of sync and createTable.
SyncOptions == {Obj(<<>>), Obj(<<Prop("force", Bool(TRUE))>>)}
CreateTableOptions == SyncOptions \cup {Obj(<<Prop("ifNotExists", Bool(FALSE))>>)}

\* The message of the server's error for a table that exists.
ExistsMessage == "Table default.user already exists"

\* What can happen to a statement: it is carried out, no client can be
\* created, the table exists, or the statement is bad.
Outcomes ==
  {Outcome(FALSE, "resolves", ""), Outcome(TRUE, "resolves", ""),
   Outcome(FALSE, "rejects", ExistsMessage), Outcome(FALSE, "rejects", ClientMessage)}

NextRegistry ==
  \/ \E modelName \in ModelNames, attributes \in RegistryAttributes :
       Define(modelName, attributes, Obj(<<>>))
  \/ \E name \in LookupNames : ModelLookup(name)
  \/ GetModels
  \/ \E options \in SyncOptions, outs \in [1..Len(models) -> Outcomes] : Sync(options, outs)

SpecRegistry == Init /\ [][NextRegistry]_vars

\* schema.createTable(model, options), awaited to its end.
CreateTable(m, options, out) ==
  LET o == createTable(Connection, generateCreateTableSQL(m, options), options,
                       connectionQuery(Connection, CreateClient(out.fails), out.reply, out.message))
  IN /\ api' = Call("createTable", <<m, options>>)
     /\ sent' = o.sent
     /\ result' = o.result
     /\ client' = o.this.client
     /\ isConnected' = o.this.isConnected
     /\ created' = IF o.this.client # client THEN created + 1 ELSE created
     /\ completedClose' = (completedClose /\ o.this.client = client)
     /\ UNCHANGED <<closeCalled, tasks, models, defined, builderVars>>

\* schema.addColumn(tableName, columnName, definition), awaited to its end.
AddColumn(tableName, columnName, definition, out) ==
  LET o == addColumn(Connection, tableName, generateColumnDefinition(columnName, definition),
                     connectionQuery(Connection, CreateClient(out.fails), out.reply, out.message))
  IN /\ api' = Call("addColumn", <<Str(tableName), Str(columnName), definition>>)
     /\ sent' = o.sent
     /\ result' = o.result
     /\ client' = o.this.client
     /\ isConnected' = o.this.isConnected
     /\ created' = IF o.this.client # client THEN created + 1 ELSE created
     /\ completedClose' = (completedClose /\ o.this.client = client)
     /\ UNCHANGED <<closeCalled, tasks, models, defined, builderVars>>

\* The shapes of a field's definition: a type name, objects with a type,
\* an object without one, an empty type, null, undefined and a number.
FieldDefinitions ==
  {Str("String"),
   Obj(<<Prop("type", Str("String")), Prop("comment", Str("Test name field"))>>),
   Obj(<<Prop("type", Str("DateTime")), Prop("defaultValue", Str("now()"))>>),
   Obj(<<Prop("comment", Str("Test name field"))>>),
   Obj(<<Prop("type", Str(""))>>),
   Null, Undefined, Num(42)}

\* The test's model with one more field, and the options of its definition.
FieldAttributes(definition) ==
  Obj(<<Prop("id", Obj(<<Prop("type", Str("UInt32")), Prop("primaryKey", Bool(TRUE))>>)),
        Prop("name", definition)>>)
SchemaOptions ==
  {Obj(<<>>),
   Obj(<<Prop("tableName", Str("schema_test")), Prop("engine", Str("MergeTree()")),
         Prop("orderBy", Str("id")),
         Prop("settings", Obj(<<Prop("index_granularity", Num(8192))>>))>>)}

\* The first define of an ORM: a model with a field of some shape.
DefineField ==
  /\ defined = <<>>
  /\ \E definition \in FieldDefinitions, options \in SchemaOptions :
       Define(Str("User"), FieldAttributes(definition), options)

NextSchema ==
  \/ DefineField
  \/ \E m \in DefinedModels, options \in CreateTableOptions, out \in Outcomes :
       CreateTable(m, options, out)
  \/ \E m \in DefinedModels, definition \in FieldDefinitions, out \in Outcomes :
       AddColumn(ToStr(m.tableName), "name", definition, out)

SpecSchema == Init /\ [][NextSchema]_vars

(***************************************************************************)
(* Vocabulary of the properties.                                           *)
(***************************************************************************)
\* The positions at which kw occurs in s.
Positions(s, kw) ==
  {p \in 1..(Len(s) - Len(kw) + 1) : SubSeq(s, p, p + Len(kw) - 1) = kw}

Contains(s, kw) == Positions(s, kw) # {}

\* The clause keywords of the grammar, in the order of the grammar.
ClauseKeywords ==
  <<" FROM ", " JOIN ", " WHERE ", " GROUP BY ", " HAVING ", " ORDER BY ", " LIMIT ", " OFFSET ">>

\* The last call was build(), so returned holds the SQL text.
Built == calls # <<>> /\ calls[Len(calls)].method = "build"

\* The calls of the methods in ms, in call order.
CallsOf(ms) == SelectSeq(calls, LAMBDA c : c.method \in ms)

(***************************************************************************)
(* C1: whatever the order of the builder calls, the text build() returns   *)
(* starts with SELECT and every occurrence of a clause keyword comes       *)
(* before every occurrence of the keywords that follow it in the grammar   *)
(* SELECT, FROM, JOIN, WHERE, GROUP BY, HAVING, ORDER BY, LIMIT, OFFSET;   *)
(* the scenario of the specification renders its expected statement.       *)
(***************************************************************************)
C1_Scenario ==
  LET q1 == select(constructor, Arr(<<Str("name"), Str("email")>>))
      q2 == from(q1, Str("users"))
      q3 == where(q2, Obj(<<Prop("age", Obj(<<Prop("gte", Num(18))>>))>>)).query
      q4 == orderBy(q3, Str("name"), Str("ASC"))
      q5 == limit(q4, Num(10))
  IN build(q5) = "SELECT name, email FROM users WHERE age >= '18' ORDER BY name ASC LIMIT 10"

C1_ClauseOrderFixed ==
  /\ C1_Scenario
  /\ Built =>
       /\ SubSeq(returned.s, 1, 7) = "SELECT "
       /\ \A i \in 1..Len(ClauseKeywords) : \A j \in (i + 1)..Len(ClauseKeywords) :
            \A p \in Positions(returned.s, ClauseKeywords[i]) :
              \A r \in Positions(returned.s, ClauseKeywords[j]) : p < r

\* limit, where and from called against the grammar's order, then build.
C1_Witness ==
  /\ Len(calls) = 4
  /\ <<calls[1].method, calls[2].method, calls[3].method, calls[4].method>>
       = <<"limit", "where", "from", "build">>
  /\ returned = Str("SELECT  FROM users WHERE age >= '18' LIMIT 10")

Methods == [i \in 1..Len(calls) |-> calls[i].method]

(***************************************************************************)
(* C2: select, from and groupBy keep the value of their last call, and the *)
(* stored where fragments and order-by items are those of all where() and  *)
(* all orderBy() calls in call order, for string and array arguments.      *)
(***************************************************************************)
\* The order-by items one orderBy call names.
C2_ItemsOf(c) ==
  IF TypeOf(c.args[1]) = "string"
  THEN <<Str(c.args[1].s \o " " \o (IF c.args[2] = Undefined THEN "ASC" ELSE ToStr(c.args[2])))>>
  ELSE IF IsArray(c.args[1]) THEN c.args[1].a
  ELSE <<>>

\* The where fragments one where call names.
C2_FragmentsOf(c) == where(constructor, c.args[1]).query.where

RECURSIVE C2_AllItems(_)
C2_AllItems(cs) ==
  IF cs = <<>> THEN <<>> ELSE C2_ItemsOf(Head(cs)) \o C2_AllItems(Tail(cs))

RECURSIVE C2_AllFragments(_)
C2_AllFragments(cs) ==
  IF cs = <<>> THEN <<>> ELSE C2_FragmentsOf(Head(cs)) \o C2_AllFragments(Tail(cs))

\* The calls of method m whose argument is a string or an array.
C2_Accepted(m) ==
  SelectSeq(calls, LAMBDA c : c.method = m /\ (TypeOf(c.args[1]) = "string" \/ IsArray(c.args[1])))

C2_LastWins(m, stored) ==
  LET cs == C2_Accepted(m)
  IN cs # <<>> =>
       LET a == cs[Len(cs)].args[1]
       IN stored = IF IsArray(a) THEN a.a ELSE <<a>>

C2_ReplaceAndAppend ==
  /\ C2_LastWins("select", query.select)
  /\ C2_LastWins("groupBy", query.groupBy)
  /\ CallsOf({"from"}) # <<>> =>
       query.from = CallsOf({"from"})[Len(CallsOf({"from"}))].args[1]
  /\ query.where = C2_AllFragments(CallsOf({"where"}))
  /\ query.orderBy = C2_AllItems(CallsOf({"orderBy"}))
  /\ Built /\ CallsOf({"orderBy"}) # <<>> =>
       Contains(returned.s,
                " ORDER BY " \o ArrayJoin(C2_AllItems(CallsOf({"orderBy"})), ", "))

(***************************************************************************)
(* C3: a builder on which select was never called, or only without an      *)
(* argument, and on which only from('users') was called besides, builds    *)
(* SELECT * FROM users.                                                    *)
(***************************************************************************)
C3_DefaultSelectIsStar ==
  ( /\ Built
    /\ \E i \in 1..(Len(calls) - 1) : calls[i] = Call("from", <<Str("users")>>)
    /\ \A i \in 1..(Len(calls) - 1) :
         calls[i] \in {Call("from", <<Str("users")>>), Call("select", <<Undefined>>)} )
  => returned = Str("SELECT * FROM users")

(***************************************************************************)
(* C4: a build() step changes no field of the query state, a build() that  *)
(* directly follows a build() returns the same text, and a limit, offset   *)
(* or having call made after a build() shows in the next build().          *)
(***************************************************************************)
C4_BuildStep == calls' = Append(calls, Call("build", <<>>))

\* Some build() came before the last call of method m.
C4_CalledAfterBuild(m) ==
  \E i \in 1..Len(calls) : \E j \in (i + 1)..Len(calls) :
    calls[i].method = "build" /\ calls[j].method = m

C4_UsableAfterBuild ==
  Built =>
    /\ C4_CalledAfterBuild("limit") => Contains(returned.s, " LIMIT 10")
    /\ C4_CalledAfterBuild("offset") => Contains(returned.s, " OFFSET 5")
    /\ C4_CalledAfterBuild("having") => Contains(returned.s, " HAVING COUNT(*) > 1")

C4_BuildIsPure ==
  /\ []C4_UsableAfterBuild
  /\ [][C4_BuildStep => (query' = query /\ (Built => returned' = returned))]_vars

\* Two builds in a row, then limit(10), then a build that shows the limit.
C4_Witness ==
  /\ Methods = <<"build", "build", "limit", "build">>
  /\ returned = Str("SELECT  FROM  LIMIT 10")

(***************************************************************************)
(* C5: the text build() returns holds the WHERE keyword exactly when a     *)
(* where fragment is stored, where() with an empty FilterSpec stores none, *)
(* and GROUP BY, HAVING, ORDER BY, LIMIT and OFFSET are absent when their  *)
(* method was never called.                                                *)
(***************************************************************************)
C5_ClausesOnlyWhenSet ==
  /\ (\A i \in 1..Len(calls) : calls[i].method = "where" => calls[i].args = <<Obj(<<>>)>>)
       => query.where = <<>>
  /\ Built =>
       /\ Contains(returned.s, " WHERE ") <=> Len(query.where) > 0
       /\ CallsOf({"groupBy"}) = <<>> => ~Contains(returned.s, " GROUP BY ")
       /\ CallsOf({"having"}) = <<>> => ~Contains(returned.s, " HAVING ")
       /\ CallsOf({"orderBy"}) = <<>> => ~Contains(returned.s, " ORDER BY ")
       /\ CallsOf({"limit"}) = <<>> => ~Contains(returned.s, " LIMIT ")
       /\ CallsOf({"offset"}) = <<>> => ~Contains(returned.s, " OFFSET ")

\* from('users'), where({}) and build: no WHERE in the statement.
C5_Witness ==
  /\ Len(calls) = 3
  /\ calls[1] = Call("from", <<Str("users")>>)
  /\ calls[2] = Call("where", <<Obj(<<>>)>>)
  /\ calls[3].method = "build"
  /\ returned = Str("SELECT  FROM users")

(***************************************************************************)
(* Vocabulary of the FilterSpec properties: the rendering the              *)
(* specification gives for a field's value.                                *)
(***************************************************************************)
RecognizedOperators == {"gt", "gte", "lt", "lte", "ne", "like", "in", "notIn"}

\* The operator-to-SQL table.
SqlOperator(tag) ==
  CASE tag = "gt" -> ">"
    [] tag = "gte" -> ">="
    [] tag = "lt" -> "<"
    [] tag = "lte" -> "<="
    [] tag = "ne" -> "!="
    [] tag = "like" -> "LIKE"
    [] tag = "in" -> "IN"
    [] tag = "notIn" -> "NOT IN"

Quoted(v) == "'" \o ToStr(v) \o "'"

QuotedCsv(l) == JoinStrings([i \in 1..Len(l) |-> Quoted(l[i])], ", ")

\* The FilterSpec of the first call, a where(FilterSpec), and its entries.
FirstIsWhere == calls # <<>> /\ calls[1].method = "where" /\ calls[1].args[1].t = "object"
FirstEntries == calls[1].args[1].e

\* An operator map: a plain object (not a list, not a Date, not null).
IsOperatorMap(v) == v.t = "object"
IsScalar(v) == v.t \notin {"array", "object"}

\* The value under an operator tag has the shape the tag takes.
WellShaped(e) == e.key \in {"in", "notIn"} => IsArray(e.value)

\* The fragments of the recognized entries of one operator map, in key order.
RECURSIVE OperatorFragments(_, _)
OperatorFragments(field, entries) ==
  IF entries = <<>> THEN <<>>
  ELSE LET e == Head(entries)
       IN (IF e.key \in RecognizedOperators
           THEN <<field \o " " \o SqlOperator(e.key) \o " "
                  \o (IF IsArray(e.value) THEN "(" \o QuotedCsv(e.value.a) \o ")"
                      ELSE Quoted(e.value))>>
           ELSE <<>>)
          \o OperatorFragments(field, Tail(entries))

\* The fragments of a FilterSpec, in field order.
RECURSIVE FilterFragments(_)
FilterFragments(entries) ==
  IF entries = <<>> THEN <<>>
  ELSE LET e == Head(entries)
       IN (IF IsArray(e.value) THEN <<e.key \o " IN (" \o QuotedCsv(e.value.a) \o ")">>
           ELSE IF IsOperatorMap(e.value) THEN OperatorFragments(e.key, e.value.e)
           ELSE <<e.key \o " = " \o Quoted(e.value)>>)
          \o FilterFragments(Tail(entries))

(***************************************************************************)
(* C6: where() on a fresh builder with a FilterSpec whose values are all   *)
(* scalars (number, string, null or date; not a list, not an operator map) *)
(* stores, per entry and in entry order, the one fragment f = '<v>'.       *)
(***************************************************************************)
C6_ScalarsRenderEquals ==
  (FirstIsWhere /\ \A i \in 1..Len(FirstEntries) : IsScalar(FirstEntries[i].value))
  => /\ ~threw
     /\ query.where =
          [i \in 1..Len(FirstEntries) |->
             FirstEntries[i].key \o " = '" \o ToStr(FirstEntries[i].value) \o "'"]

(***************************************************************************)
(* C7: where() on a fresh builder with a FilterSpec whose values are all   *)
(* lists stores, per entry and in entry order, the one fragment            *)
(* f IN ('v1', ..., 'vn') with the elements quoted one by one, in order.   *)
(***************************************************************************)
C7_ListsRenderIn ==
  (FirstIsWhere /\ \A i \in 1..Len(FirstEntries) : IsArray(FirstEntries[i].value))
  => /\ ~threw
     /\ query.where =
          [i \in 1..Len(FirstEntries) |->
             FirstEntries[i].key \o " IN (" \o QuotedCsv(FirstEntries[i].value.a) \o ")"]

\* where({status: ['active', 1]}) and build.
C7_Witness ==
  /\ Len(calls) = 2
  /\ calls[1] = Call("where", <<Obj(<<Prop("status", Arr(<<Str("active"), Num(1)>>))>>)>>)
  /\ query.where = <<"status IN ('active', '1')">>
  /\ returned = Str("SELECT  FROM  WHERE status IN ('active', '1')")

(***************************************************************************)
(* C8: where() on a fresh builder with a FilterSpec whose values are all   *)
(* operator maps of recognized operators stores one fragment per operator  *)
(* entry, rendered by the operator-to-SQL table, in field order and within *)
(* a field in key order, and build() joins them with AND.                  *)
(***************************************************************************)
C8_ComplexConditions ==
  where(constructor,
        Obj(<<Prop("age", Obj(<<Prop("gte", Num(18)), Prop("lte", Num(65))>>)),
              Prop("name", Obj(<<Prop("like", Str("John%"))>>)),
              Prop("status", Obj(<<Prop("in", Arr(<<Str("active"), Str("pending")>>))>>))>>)).query.where
  = <<"age >= '18'", "age <= '65'", "name LIKE 'John%'", "status IN ('active', 'pending')">>

C8_OperatorMapsInOrder ==
  /\ C8_ComplexConditions
  /\ ( /\ FirstIsWhere
       /\ \A i \in 1..Len(FirstEntries) :
            /\ IsOperatorMap(FirstEntries[i].value)
            /\ \A j \in 1..Len(FirstEntries[i].value.e) :
                 /\ FirstEntries[i].value.e[j].key \in RecognizedOperators
                 /\ WellShaped(FirstEntries[i].value.e[j]) )
     => /\ ~threw
        /\ query.where = FilterFragments(FirstEntries)
        /\ Len(query.where) > 0 /\ Built =>
             returned.s = "SELECT  FROM  WHERE " \o JoinStrings(FilterFragments(FirstEntries), " AND ")

\* where({age: {gte: 18, lte: 65}, status: {in: ['active', 'pending']}}) and
\* build: two fields, two operators on the first.
C8_Witness ==
  /\ Len(calls) = 2
  /\ calls[1] = Call("where",
                     <<Obj(<<Prop("age", Obj(<<Prop("gte", Num(18)), Prop("lte", Num(65))>>)),
                             Prop("status", Obj(<<Prop("in", Arr(<<Str("active"), Str("pending")>>))>>))>>)>>)
  /\ returned = Str("SELECT  FROM  WHERE age >= '18' AND age <= '65'"
                    \o " AND status IN ('active', 'pending')")

(***************************************************************************)
(* C9: an operator tag outside gt, gte, lt, lte, ne, like, in, notIn (eq   *)
(* included) adds no fragment and raises no error: the stored fragments    *)
(* and the outcome are those of the same FilterSpec without the entries of *)
(* unrecognized tags, and a field whose operator map holds only            *)
(* unrecognized tags adds no fragment.                                     *)
(***************************************************************************)
\* The FilterSpec without the operator entries of unrecognized tags.
C9_Strip(entries) ==
  [i \in 1..Len(entries) |->
     IF IsOperatorMap(entries[i].value)
     THEN Prop(entries[i].key,
               Obj(SelectSeq(entries[i].value.e, LAMBDA e : e.key \in RecognizedOperators)))
     ELSE entries[i]]

C9_HasUnrecognized(entries) ==
  \E i \in 1..Len(entries) :
    /\ IsOperatorMap(entries[i].value)
    /\ \E j \in 1..Len(entries[i].value.e) : entries[i].value.e[j].key \notin RecognizedOperators

C9_UnrecognizedDropped ==
  (FirstIsWhere /\ C9_HasUnrecognized(FirstEntries))
  => /\ query.where = where(constructor, Obj(C9_Strip(FirstEntries))).query.where
     /\ Len(calls) = 1 => threw = where(constructor, Obj(C9_Strip(FirstEntries))).threw
     /\ (\A i \in 1..Len(FirstEntries) :
           /\ IsOperatorMap(FirstEntries[i].value)
           /\ \A j \in 1..Len(FirstEntries[i].value.e) :
                FirstEntries[i].value.e[j].key \notin RecognizedOperators)
        => (query.where = <<>> /\ ~threw)
     /\ (\A i \in 1..Len(FirstEntries) :
           \/ IsArray(FirstEntries[i].value)
           \/ IsScalar(FirstEntries[i].value) /\ FirstEntries[i].value.t # "Date"
           \/ /\ IsOperatorMap(FirstEntries[i].value)
              /\ \A j \in 1..Len(FirstEntries[i].value.e) : WellShaped(FirstEntries[i].value.e[j]))
        => (query.where = FilterFragments(FirstEntries) /\ ~threw)

\* where({age: {eq: 18, gte: 18}}) and build: only the gte entry is rendered.
C9_Witness ==
  /\ Len(calls) = 2
  /\ calls[1] = Call("where", <<Obj(<<Prop("age", Obj(<<Prop("eq", Num(18)), Prop("gte", Num(18))>>))>>)>>)
  /\ ~threw
  /\ returned = Str("SELECT  FROM  WHERE age >= '18'")

(***************************************************************************)
(* C10: the stored joins are those of the join, leftJoin and rightJoin     *)
(* calls in call order, with kind INNER, LEFT and RIGHT, and build()       *)
(* renders them as ` <KIND> JOIN <table> ON <condition>` in that order     *)
(* directly after the FROM source and before every other clause.           *)
(***************************************************************************)
JoinMethods == {"join", "leftJoin", "rightJoin"}

C10_Kind(m) ==
  CASE m = "join" -> "INNER"
    [] m = "leftJoin" -> "LEFT"
    [] m = "rightJoin" -> "RIGHT"

RECURSIVE C10_JoinText(_)
C10_JoinText(cs) ==
  IF cs = <<>> THEN ""
  ELSE " " \o C10_Kind(Head(cs).method) \o " JOIN " \o Head(cs).args[1].s
       \o " ON " \o Head(cs).args[2].s \o C10_JoinText(Tail(cs))

C10_Scenario ==
  build(leftJoin(from(select(constructor, Str("*")), Str("users u")),
                 Str("posts p"), Str("u.id = p.user_id")))
  = "SELECT * FROM users u LEFT JOIN posts p ON u.id = p.user_id"

C10_JoinsInInsertionOrder ==
  LET js == CallsOf(JoinMethods)
  IN /\ C10_Scenario
     /\ query.joins =
          [i \in 1..Len(js) |-> [type |-> Str(C10_Kind(js[i].method)),
                                 table |-> js[i].args[1], condition |-> js[i].args[2]]]
     /\ Built =>
          LET source == "SELECT " \o ArrayJoin(query.select, ", ") \o " FROM " \o ToStr(query.from)
              expect == source \o C10_JoinText(js)
          IN /\ SubSeq(returned.s, 1, Len(expect)) = expect
             /\ \A p \in Positions(returned.s, " JOIN ") : p < Len(expect)
             /\ \A k \in 3..Len(ClauseKeywords) :
                  \A p \in Positions(returned.s, ClauseKeywords[k]) : p > Len(expect)

\* from('users u'), leftJoin, join and build: LEFT first, INNER second.
C10_Witness ==
  /\ Methods = <<"from", "leftJoin", "join", "build">>
  /\ returned = Str("SELECT  FROM users u LEFT JOIN posts p ON u.id = p.user_id"
                    \o " INNER JOIN posts p ON u.id = p.user_id")

(***************************************************************************)
(* Vocabulary of the connection properties.                                *)
(***************************************************************************)
\* The invocations of the methods ops that have returned or thrown.
SettledTasks(ops) == {i \in 1..Len(tasks) : tasks[i].op \in ops /\ tasks[i].pc = "settled"}
\* The message of the external error that hit an invocation.
OriginalMessage(origin) ==
  CASE origin = "createClient" -> CreateClientMessage
    [] origin = "query" -> ClientMessage
    [] origin = "insert" -> ClientMessage
    [] origin = "json" -> JsonMessage
    [] origin = "close" -> CloseMessage
    [] OTHER -> ""

\* C11 as stated: a query() hit by a failure of the client's creation or of
\* the client's query call throws an error whose message is
\* `Query execution failed: ` followed by the original message, and no
\* query() makes more than one query call on the client.
C11_OriginalMessageFollows ==
  \A i \in SettledTasks({"query"}) :
    /\ tasks[i].origin \in {"createClient", "query"} =>
         /\ tasks[i].settled = "rejected"
         /\ tasks[i].message = "Query execution failed: " \o OriginalMessage(tasks[i].origin)
    /\ tasks[i].dispatched <= 1

\* C11 amended: a query() hit by a failure of the client's query call throws
\* an error whose message is `Query execution failed: ` followed by the
\* original message; hit by a failure of the client's creation, one whose
\* message is `Query execution failed: Failed to connect to ClickHouse: `
\* followed by the original message; neither failure is swallowed, and no
\* query() makes more than one query call on the client.
C11_FailuresResignaled ==
  \A i \in 1..Len(tasks) :
    tasks[i].op = "query" =>
      /\ tasks[i].dispatched <= 1
      /\ tasks[i].pc = "settled" /\ tasks[i].origin = "query" =>
           /\ tasks[i].settled = "rejected"
           /\ tasks[i].message = "Query execution failed: " \o ClientMessage
           /\ tasks[i].dispatched = 1
      /\ tasks[i].pc = "settled" /\ tasks[i].origin = "createClient" =>
           /\ tasks[i].settled = "rejected"
           /\ tasks[i].message =
                "Query execution failed: Failed to connect to ClickHouse: " \o CreateClientMessage
           /\ tasks[i].dispatched = 0

\* Two query() calls have thrown, one for the client's creation and one for
\* the client's query call.
C11_Witness ==
  \E i, j \in SettledTasks({"query"}) :
    /\ tasks[i].origin = "createClient" /\ tasks[i].settled = "rejected"
    /\ tasks[j].origin = "query" /\ tasks[j].settled = "rejected"

\* No close() has been called on the connection.
NoClose == \A i \in 1..Len(tasks) : tasks[i].op # "close"
\* The invocations that got a client from their connect() call.
Connected == {i \in 1..Len(tasks) : tasks[i].op # "close" /\ ~tasks[i].connected.threw}

\* C17: as long as no close() is called, however the connect, authenticate,
\* query and insert calls interleave, at most one client is created and
\* every call gets and uses that client; and a step creates a client only
\* when none was created since construction or when a close() has completed
\* since the last one was created.
C17_ConnectIdempotent ==
  /\ [](NoClose =>
          /\ created <= 1
          /\ \A i \in Connected : tasks[i].connected.value = 1 /\ client = 1)
  /\ [][created' # created => (created = 0 \/ completedClose)]_vars

\* With no close() called, a query and an insert are both waiting for the
\* reply of the one client, which a third call, a connect(), returned too.
C17_Witness ==
  /\ NoClose
  /\ created = 1
  /\ \E i, j, k \in Connected :
       /\ tasks[i].op = "query" /\ tasks[i].pc = "reply"
       /\ tasks[j].op = "insert" /\ tasks[j].pc = "reply"
       /\ tasks[k].op = "connect"

\* C19: in every state between two stretches of code, that is between
\* operations and at every await, isConnected is true exactly when client is
\* not null.
C19_ConnectedIffClient == isConnected <=> client # NoClient

\* The connection is still connected after a close() whose client close
\* failed, and before that a client creation had failed.
C19_Witness ==
  /\ isConnected
  /\ \E i, j \in 1..Len(tasks) :
       /\ i < j
       /\ tasks[i].origin = "createClient"
       /\ tasks[j].op = "close" /\ tasks[j].settled = "rejected"

\* C20 as stated: no query or insert makes its call on a client whose
\* close() has already been invoked.
C20_NoDispatchAfterClose ==
  \A i \in 1..Len(tasks) : tasks[i].op \in {"query", "insert"} => ~tasks[i].onClosed

(***************************************************************************)
(* Vocabulary of the model properties.                                     *)
(***************************************************************************)
\* The last call was findAll and handed a statement to the connection.
FoundAll == api.method = "findAll" /\ Len(sent) = 1
\* The statement findAll sent and the options it was given.
SentSql == sent[1].text
FindAllOptions == api.args[2]
\* A [column, direction] pair, and the item it stands for.
IsPair(v) == IsArray(v) /\ Len(v.a) = 2 /\ \A i \in 1..2 : v.a[i].t = "string"
PairItem(v) == v.a[1].s \o " " \o v.a[2].s
\* The ORDER BY items a pair or a list of pairs stands for.
OrderItems(v) ==
  IF IsPair(v) THEN <<PairItem(v)>> ELSE [i \in 1..Len(v.a) |-> PairItem(v.a[i])]
\* The text of sql after the first place kw occurs at; none if it does not.
After(sql, kw) ==
  LET ats == Positions(sql, kw)
  IN IF ats = {} THEN ""
     ELSE SubSeq(sql, (CHOOSE i \in ats : \A j \in ats : i <= j) + Len(kw), Len(sql))
\* The text of sql before the first place one of kws occurs at.
Before(sql, kws) ==
  LET ats == UNION {Positions(sql, kw) : kw \in kws}
  IN IF ats = {} THEN sql
     ELSE SubSeq(sql, 1, (CHOOSE i \in ats : \A j \in ats : i <= j) - 1)

\* C12 as stated: given orderBy as a [column, direction] pair or as a list
\* of such pairs, the ORDER BY clause of the statement findAll sends is the
\* comma-separated list of the `<column> <direction>` items, in their order.
C12_OrderByPairs ==
  (FoundAll /\ (IsPair(FindAllOptions.orderBy)
                \/ (IsArray(FindAllOptions.orderBy)
                    /\ \A i \in 1..Len(FindAllOptions.orderBy.a) :
                         IsPair(FindAllOptions.orderBy.a[i]))))
  => /\ Contains(SentSql, " ORDER BY ")
     /\ Before(After(SentSql, " ORDER BY "), {" LIMIT ", " OFFSET "})
          = JoinStrings(OrderItems(FindAllOptions.orderBy), ", ")

\* C13 as stated: the statement findAll sends has `LIMIT <limit>` for every
\* limit supplied that is zero or more, `OFFSET <offset>` for every such
\* offset, and neither keyword for an option not supplied.
C13_LimitOffsetSupplied ==
  FoundAll =>
    /\ IF FindAllOptions.limit = Undefined THEN ~Contains(SentSql, " LIMIT ")
       ELSE Before(After(SentSql \o " ", " LIMIT "), {" "}) = ToStr(FindAllOptions.limit)
    /\ IF FindAllOptions.offset = Undefined THEN ~Contains(SentSql, " OFFSET ")
       ELSE Before(After(SentSql \o " ", " OFFSET "), {" "}) = ToStr(FindAllOptions.offset)

\* C14 as stated: create(values) returns a record carrying the values
\* whenever the insert succeeded, and throws, with a message that starts
\* with `Failed to create <model name>: `, only when the insert failed; so
\* no create that throws has inserted a row.
C14_CreateFollowsInsert ==
  api.method = "create" =>
    /\ sent[1].done => (~result.threw /\ result.value.values = api.args[2])
    /\ result.threw =>
         /\ ~sent[1].done
         /\ LET prefix == "Failed to create " \o ToStr(api.args[1].name) \o ": "
            IN SubSeq(result.message, 1, Len(prefix)) = prefix

(***************************************************************************)
(* Vocabulary of the registry and schema properties.                       *)
(***************************************************************************)
\* The place of the last define under name, 0 when there is none.
LastDefine(name) ==
  LET at == {i \in 1..Len(defined) : defined[i].name = name}
  IN IF at = {} THEN 0 ELSE CHOOSE i \in at : \A j \in at : j <= i
\* The model the last define under name returned, undefined when none did.
LastDefined(name) ==
  IF LastDefine(name) = 0 THEN Undefined ELSE defined[LastDefine(name)].model
\* The places of the defines under a name not defined before.
FirstDefines == {i \in 1..Len(defined) : \A j \in 1..(i - 1) : defined[j].name # defined[i].name}
\* The names defined, in the order of their first definitions.
FirstNames ==
  [k \in 1..Cardinality(FirstDefines) |->
     defined[CHOOSE i \in FirstDefines : Cardinality({j \in FirstDefines : j <= i}) = k].name]

\* C15: after any sequence of define calls, model(name) is the model the
\* last define under that name returned and undefined for a name never
\* defined, getModels() lists one model for each name defined, in the order
\* of the first definitions, and a define under one name leaves the entry of
\* every other name as it was.
C15_RegistryLastDefineWins ==
  /\ [](/\ \A name \in LookupNames : model(name) = LastDefined(name)
        /\ getModels = Arr([k \in 1..Len(FirstNames) |-> LastDefined(FirstNames[k])])
        /\ api.method = "model" => result = Returns(LastDefined(api.args[1]))
        /\ api.method = "getModels" =>
             result = Returns(Arr([k \in 1..Len(FirstNames) |-> LastDefined(FirstNames[k])])))
  /\ [][\A name \in LookupNames :
          (api'.method = "define" /\ api'.args[1] # name)
            => MapGet(models', name) = MapGet(models, name)]_vars

\* User was defined, then Post, then User again, and getModels() was called.
C15_Witness ==
  /\ Len(defined) = 3
  /\ defined[1].name = Str("User") /\ defined[2].name = Str("Post")
  /\ defined[3].name = Str("User")
  /\ api.method = "getModels"
  /\ Len(result.value.a) = 2

\* A definition that carries a type: a string, or an object with a type.
Resolvable(definition) ==
  \/ definition.t = "string"
  \/ definition.t = "object" /\ Truthy(Get(definition, "type"))
\* The fields of attributes whose definitions carry no type.
Unresolvable(attributes) ==
  {i \in 1..Len(attributes.e) : ~Resolvable(attributes.e[i].value)}

\* C16 as stated: for a field whose definition carries no resolvable type,
\* whatever its shape, createTable and addColumn throw `Data type is
\* required for field <name>` and send no statement to the connection.
C16_MissingDataTypeSignaled ==
  /\ (api.method = "addColumn" /\ ~Resolvable(api.args[3])) =>
       /\ sent = <<>>
       /\ result.threw
       /\ result.message = "Data type is required for field " \o api.args[2].s
  /\ (api.method = "createTable" /\ Unresolvable(api.args[1].attributes) # {}) =>
       /\ sent = <<>>
       /\ result.threw
       /\ \E i \in Unresolvable(api.args[1].attributes) :
            result.message = "Data type is required for field " \o api.args[1].attributes.e[i].key

\* An error createTable does not suppress, force telling whether
\* options.force is set.
Propagates(r, force) ==
  r.error # "" /\ ~(Includes(r.error, "already exists") /\ force)
\* The start of the CREATE TABLE statement of a model.
CreateTableOf(m) == "CREATE TABLE IF NOT EXISTS " \o ToStr(m.tableName) \o " ("

\* C18: sync sends the CREATE TABLE statements of the registered models in
\* registration order, one for each model up to the first failure that
\* propagates and none after it; an error of the connection is suppressed
\* only when its message contains `already exists` and options.force is
\* set, and every other failure is thrown by sync as it is.
C18_SyncStopsAtFirstFailure ==
  api.method = "sync" =>
    LET force == Truthy(Get(api.args[1], "force"))
        k == Len(sent)
    IN /\ k <= Len(models)
       /\ \A i \in 1..k :
            SubSeq(sent[i].text, 1, Len(CreateTableOf(models[i].value)))
              = CreateTableOf(models[i].value)
       /\ \A i \in 1..(k - 1) : ~Propagates(sent[i], force)
       /\ IF k > 0 /\ Propagates(sent[k], force)
          THEN result.threw /\ result.message = sent[k].error
          ELSE IF k < Len(models)
          THEN /\ Unresolvable(models[k + 1].value.attributes) # {}
               /\ result.threw
               /\ result.message = "Data type is required for field title"
          ELSE ~result.threw

\* With force set, sync got an `already exists` error for the first of two
\* tables and went on, and threw the error of the second.
C18_Witness ==
  /\ api.method = "sync"
  /\ Truthy(Get(api.args[1], "force"))
  /\ Len(models) = 2 /\ Len(sent) = 2
  /\ Includes(sent[1].error, "already exists")
  /\ sent[2].error = "Query execution failed: " \o ClientMessage
  /\ result.threw

\* C21 as stated: a where(FilterSpec) call that fails leaves the builder's
\* where fragments as they were before the call, and the build() that
\* follows it on the builder renders the fragments of before the call only.
C21_WhereAllOrNothing ==
  [][/\ (calls' # calls /\ calls'[Len(calls')].method = "where" /\ threw')
          => query'.where = query.where
     /\ (calls # <<>> /\ calls[Len(calls)].method = "where" /\ threw
           /\ calls' # calls /\ calls'[Len(calls')].method = "build")
          => returned' = Str(build([query EXCEPT !.where = constructor.where]))]_vars

====
